---- MODULE Spec2Model ----
(***************************************************************************)
(* A model of nasaQuery.py: one sequential process that searches the NASA  *)
(* image library, follows the "next" links of the result pages, fetches    *)
(* the file listing and the metadata document of every image asset, keeps  *)
(* the assets whose file size is above 1000 kB and writes them to          *)
(* nasa_ids.csv.                                                           *)
(*                                                                         *)
(* The remote API is the environment: every response (status code and      *)
(* body) is chosen nondeterministically from small sets.  Strings that the *)
(* program parses (the File:FileSize value) are sequences of one-character *)
(* strings, so that split, substring tests, int() and float() are computed *)
(* as Python computes them.                                                *)
(***************************************************************************)
EXTENDS Integers, Sequences, FiniteSets, TLC

VARIABLES
    pc,                \* position of the single thread of control
    data,              \* the page bound to `data` (main, then the paginator's local)
    totalItemsNumber,  \* main: totalItemsNumber (line 185)
    items,             \* the accumulated item list
    links,             \* the list the for loop of line 90 iterates over
    linkIdx,           \* position of that for loop
    imageIdx,          \* position of `for image in items` (line 120)
    objIdx,            \* position of `for dataObj in image["data"]` (line 123)
    nasaID,            \* line 119 / 126
    listing,           \* the parsed file listing (`data` of line 130)
    listIdx,           \* position of `for item in data` (line 131)
    imageMetadata,     \* the parsed metadata document (line 137)
    imageSize,         \* line 140
    finalArr,          \* line 118
    csvFile,           \* nasa_ids.csv on disk
    csvBefore,         \* nasa_ids.csv as it was when the process started
    sawNon200,         \* some response received so far had a status other than 200
    extraQueries,      \* perform_extra_url_query has been called
    listed,            \* positions <<item, asset>> whose file listing was requested
    origin             \* for each entry of finalArr, the position <<item, asset>> it came from

vars == <<pc, data, totalItemsNumber, items, links, linkIdx, imageIdx, objIdx, nasaID,
          listing, listIdx, imageMetadata, imageSize, finalArr, csvFile, csvBefore, sawNon200,
          extraQueries, listed, origin>>

(***************************************************************************)
(* Bounds of the model.                                                    *)
(***************************************************************************)
MaxTotal == 2
MaxPageItems == 2
MaxNumLen == 4

\* The size threshold in kB (lines 143 and 149).
Threshold == 1000
\* The factor from MB to kB (lines 149 and 152).
KbPerMb == 1000

(***************************************************************************)
(* Python strings as sequences of characters.                              *)
(***************************************************************************)
Digits == <<"0", "1", "2", "3", "4", "5", "6", "7", "8", "9">>

IsDigit(c) == \E d \in 1..10 : Digits[d] = c

DigitVal(c) == (CHOOSE d \in 1..10 : Digits[d] = c) - 1

\* `sub in s` for strings.
Contains(s, sub) ==
    \E i \in 1..(Len(s) - Len(sub) + 1) : SubSeq(s, i, i + Len(sub) - 1) = sub

\* s.split(" ")[0]: the text before the first blank, all of s when it has none.
SplitFirst(s) ==
    IF \E i \in 1..Len(s) : s[i] = " "
    THEN SubSeq(s, 1, (CHOOSE i \in 1..Len(s) : s[i] = " " /\ \A j \in 1..(i - 1) : s[j] # " ") - 1)
    ELSE s

RECURSIVE DecimalValue(_)
DecimalValue(s) ==
    IF s = <<>> THEN 0
    ELSE 10 * DecimalValue(SubSeq(s, 1, Len(s) - 1)) + DigitVal(s[Len(s)])

\* int(s) raises ValueError unless s is a non-empty run of digits (signs,
\* underscores and surrounding blanks are outside the modelled alphabet).
IntParses(s) == Len(s) > 0 /\ \A i \in 1..Len(s) : IsDigit(s[i])

PyInt(s) == DecimalValue(s)

\* float(s) accepts digits with at most one point and at least one digit.
FloatParses(s) ==
    /\ \A i \in 1..Len(s) : IsDigit(s[i]) \/ s[i] = "."
    /\ Cardinality({i \in 1..Len(s) : s[i] = "."}) <= 1
    /\ \E i \in 1..Len(s) : IsDigit(s[i])

PointAt(s) ==
    IF \E i \in 1..Len(s) : s[i] = "." THEN CHOOSE i \in 1..Len(s) : s[i] = "." ELSE Len(s) + 1

FracDigit(s, k) ==
    IF PointAt(s) + k <= Len(s) THEN DigitVal(s[PointAt(s) + k]) ELSE 0

\* The numerals of the modelled alphabet, up to MaxNumLen + 1 characters, for
\* which the IEEE-754 product float(s) * 1000 lies just below the exact
\* product, so that int() truncates to one less (1.001 * 1000 is
\* 1000.9999999999999).  On every other such numeral the double product
\* truncates to the exact value.
FloatRoundsDown ==
    { <<"1", ".", "0", "0", "1">>, <<"1", ".", "0", "0", "5">>, <<"1", ".", "0", "0", "9">>,
      <<"1", ".", "0", "1", "1">>, <<"1", ".", "0", "1", "5">>, <<"1", ".", "0", "1", "9">> }

\* int(float(s) * 1000)
PyIntFloatTimes1000(s) ==
    LET whole == DecimalValue(SubSeq(s, 1, PointAt(s) - 1))
        exact == whole * KbPerMb + 100 * FracDigit(s, 1) + 10 * FracDigit(s, 2) + FracDigit(s, 3)
    IN  IF s \in FloatRoundsDown THEN exact - 1 ELSE exact

\* str(n) for n >= 0
RECURSIVE PyStr(_)
PyStr(n) ==
    IF n < 10 THEN <<Digits[n + 1]>> ELSE PyStr(n \div 10) \o <<Digits[(n % 10) + 1]>>

(***************************************************************************)
(* The data the remote API can send.                                       *)
(***************************************************************************)
\* The status code check_query_was_successful accepts (line 51).
HttpOk == 200

StatusCodes == {HttpOk, 404}

Asset(type, id) == [media_type |-> type, nasa_id |-> id]

\* The items the API can return: one image, a video alone, two images around
\* a video.
ItemCatalogue ==
    { [href |-> "a", data |-> <<Asset("image", "A")>>],
      [href |-> "b", data |-> <<Asset("video", "V")>>],
      [href |-> "c", data |-> <<Asset("image", "B"), Asset("video", "V"), Asset("image", "A")>>] }

RECURSIVE SeqsUpTo(_, _)
SeqsUpTo(S, n) ==
    IF n = 0 THEN {<<>>}
    ELSE LET shorter == SeqsUpTo(S, n - 1)
         IN  shorter \cup {Append(q, x) : q \in {r \in shorter : Len(r) = n - 1}, x \in S}

PageItems == SeqsUpTo(ItemCatalogue, MaxPageItems)

Link(rel) == [rel |-> rel]

LinkLists ==
    { <<>>, <<Link("next")>>, <<Link("prev")>>, <<Link("prev"), Link("next")>>,
      <<Link("next"), Link("next")>> }

\* The collection envelope of a result page.
Page(total, its, lks) == [total_hits |-> total, items |-> its, links |-> lks]

\* `data` while no page is bound to it.
NoData == Page(-1, <<>>, <<>>)

\* The entries of a file listing, as path segments.
UrlOrig == <<"a", "orig.jpg">>
UrlMeta == <<"a", "metadata.json">>

ListingBodies == { <<>>, <<UrlOrig>>, <<UrlMeta>>, <<UrlOrig, UrlMeta>> }

\* `"metadata.json" in item` (line 134)
IsMetadataUrl(url) == \E i \in 1..Len(url) : url[i] = "metadata.json"

\* File:FileSize values a metadata document of the pipeline can carry.
PipelineSizes ==
    { <<"1", "5", "0", "0", " ", "k", "B">>,
      <<"9", "9", "9", " ", "k", "B">>,
      <<"1", ".", "5", " ", "M", "B">>,
      <<"1", " ", "M", "B">>,
      <<"1", ".", "5", " ", "k", "B">>,
      <<"5", " ", "G", "B">> }

\* A metadata document: the File:FileSize field and its value, if it has one.
Document(size) == [fields |-> {"File:FileSize"}, FileSize |-> size]
DocumentWithoutSize == [fields |-> {"File:Other"}, FileSize |-> <<>>]

\* `imageMetadata` while no document is bound to it.
NoDocument == [fields |-> {}, FileSize |-> <<>>]

PipelineDocuments == {Document(size) : size \in PipelineSizes} \cup {DocumentWithoutSize}

\* All "<number> <unit>" strings up to the bound, for the size filter alone.
NumChars == {"0", "1", "5", "9", "."}

Units == { <<"k", "B">>, <<"M", "B">>, <<"G", "B">> }

Numerals == SeqsUpTo(NumChars, MaxNumLen) \ {<<>>}

RawSizes == { n \o <<" ">> \o u : n \in Numerals, u \in Units }

(***************************************************************************)
(* The output file.                                                        *)
(***************************************************************************)
Fieldnames == <<"Nasa_id", "kb">>

NoFile == [exists |-> FALSE, header |-> <<>>, rows |-> <<>>]

StaleFile ==
    [exists |-> TRUE, header |-> Fieldnames,
     rows |-> <<[Nasa_id |-> "Z", kb |-> <<"9", "9", "9", "9">>]>>]

\* A value stored under "kb": the text of the number (line 146) or an int (line 152).
KbStr(s) == [py |-> "str", n |-> 0, s |-> s]
KbInt(n) == [py |-> "int", n |-> n, s |-> <<>>]

\* str() of a stored value, as csv.DictWriter writes it.
CsvText(kb) == IF kb.py = "int" THEN PyStr(kb.n) ELSE kb.s

CsvRow(entry) == [Nasa_id |-> entry.Nasa_id, kb |-> CsvText(entry.kb)]

\* writer.writerows(finalArr), line 169
CsvRows(arr) == [k \in 1..Len(arr) |-> CsvRow(arr[k])]

(***************************************************************************)
(* The size filter, lines 143-152.                                         *)
(***************************************************************************)
\* A size filter that keeps a file of exactly the threshold.
AtLeastThreshold(n) == n >= Threshold

\* `> 1000` of lines 143 and 149
ExceedsThreshold(n) == n > Threshold

Keep(kb) == [kind |-> "keep", kb |-> kb]
Nothing == [kind |-> "none", kb |-> KbInt(0)]
Raises == [kind |-> "raise", kb |-> KbInt(0)]

\* The elif of line 149.
MbBranch(raw) ==
    LET number == SplitFirst(raw)
    IN  IF Contains(raw, <<"M", "B">>)
        THEN IF ~FloatParses(number) THEN Raises
             ELSE IF ExceedsThreshold(PyIntFloatTimes1000(number))
                  THEN Keep(KbInt(PyIntFloatTimes1000(number)))
                  ELSE Nothing
        ELSE Nothing

\* The if of line 143, falling through to the elif when its condition is false.
SizeOutcome(raw) ==
    LET number == SplitFirst(raw)
    IN  IF Contains(raw, <<"k", "B">>)
        THEN IF ~IntParses(number) THEN Raises
             ELSE IF ExceedsThreshold(PyInt(number))
                  THEN Keep(KbStr(number))
                  ELSE MbBranch(raw)
        ELSE MbBranch(raw)

(***************************************************************************)
(* The process.                                                            *)
(***************************************************************************)
\* The accumulated list never outgrows this in the model: a page that would
\* take it further is not offered.
MaxItems == MaxTotal + 1

Init ==
    /\ pc = "main"
    /\ data = NoData
    /\ totalItemsNumber = 0
    /\ items = <<>>
    /\ links = <<>>
    /\ linkIdx = 0
    /\ imageIdx = 0
    /\ objIdx = 0
    /\ nasaID = ""
    /\ listing = <<>>
    /\ listIdx = 0
    /\ imageMetadata = NoDocument
    /\ imageSize = <<>>
    /\ finalArr = <<>>
    /\ csvBefore \in {NoFile, StaleFile}
    /\ csvFile = csvBefore
    /\ sawNon200 = FALSE
    /\ extraQueries = FALSE
    /\ listed = {}
    /\ origin = <<>>

paginatorVars == <<data, totalItemsNumber, items, links, linkIdx>>
resolverVars == <<imageIdx, objIdx, nasaID, listing, listIdx, imageMetadata, imageSize, finalArr,
                  listed, origin>>
fileVars == <<csvFile, csvBefore>>

\* A paginator that stops as soon as the count is not short of the total.
LoopContinuesWhileShort(n, total) == n < total

\* The loop condition of lines 85 and 88.
LoopContinues(n, total) == n # total

\* A main that does not look at the number of hits.
ZeroHitsUnchecked(total) == FALSE

\* `data["collection"]["metadata"]["total_hits"] == 0` (line 65)
ZeroHits(total) == total = 0

\* main, lines 176-189: the search, the two checks and the call of the paginator.
Search ==
    /\ pc = "main"
    /\ \E status \in StatusCodes, parses \in BOOLEAN, total \in 0..MaxTotal,
          its \in PageItems, lks \in LinkLists :
          /\ sawNon200' = (sawNon200 \/ status # HttpOk)
          /\ IF status # HttpOk
             THEN /\ pc' = "exited"
                  /\ UNCHANGED <<data, totalItemsNumber, items>>
             ELSE IF ~parses
             THEN /\ pc' = "crashed"
                  /\ UNCHANGED <<data, totalItemsNumber, items>>
             ELSE IF ZeroHits(total)
             THEN /\ pc' = "exited"
                  /\ data' = Page(total, its, lks)
                  /\ UNCHANGED <<totalItemsNumber, items>>
             ELSE /\ pc' = "while"
                  /\ data' = Page(total, its, lks)
                  /\ totalItemsNumber' = total
                  /\ items' = its
    /\ UNCHANGED <<links, linkIdx, resolverVars, fileVars, extraQueries>>

\* Lines 85/88 with the condition true, line 90: the for loop starts on the
\* links of the page bound to `data` now.
LoopAgain ==
    /\ pc = "while"
    /\ LoopContinues(Len(items), totalItemsNumber)
    /\ links' = data["links"]
    /\ linkIdx' = 1
    /\ pc' = "for"
    /\ UNCHANGED <<data, totalItemsNumber, items, resolverVars, fileVars, sawNon200, extraQueries>>

\* Lines 85/88 with the condition false, line 99, then lines 192-194 and 118-119.
ReturnItems ==
    /\ pc = "while"
    /\ ~LoopContinues(Len(items), totalItemsNumber)
    /\ data' = NoData
    /\ imageIdx' = 1
    /\ objIdx' = 1
    /\ finalArr' = <<>>
    /\ nasaID' = ""
    /\ pc' = "items"
    /\ UNCHANGED <<totalItemsNumber, items, links, linkIdx, listing, listIdx, imageMetadata,
                   imageSize, listed, origin, fileVars, sawNon200, extraQueries>>

\* Line 90, the links are exhausted.
ForEnd ==
    /\ pc = "for"
    /\ linkIdx > Len(links)
    /\ links' = <<>>
    /\ linkIdx' = 0
    /\ pc' = "while"
    /\ UNCHANGED <<data, totalItemsNumber, items, resolverVars, fileVars, sawNon200, extraQueries>>

\* Line 93, a link that is not "next".
ForSkip ==
    /\ pc = "for"
    /\ linkIdx <= Len(links)
    /\ links[linkIdx].rel # "next"
    /\ linkIdx' = linkIdx + 1
    /\ UNCHANGED <<pc, data, totalItemsNumber, items, links, resolverVars, fileVars,
                   sawNon200, extraQueries>>

\* Lines 93-98, a "next" link: the page is fetched, parsed and appended.  The
\* status code of the response is not looked at.
PaginationFetch ==
    /\ pc = "for"
    /\ linkIdx <= Len(links)
    /\ links[linkIdx].rel = "next"
    /\ extraQueries' = TRUE
    /\ \E status \in StatusCodes, parses \in BOOLEAN, its \in PageItems, lks \in LinkLists :
          /\ Len(items) + Len(its) <= MaxItems
          /\ sawNon200' = (sawNon200 \/ status # HttpOk)
          /\ IF parses
             THEN /\ data' = Page(data["total_hits"], its, lks)
                  /\ items' = items \o its
                  /\ linkIdx' = linkIdx + 1
                  /\ pc' = "for"
             ELSE /\ pc' = "crashed"
                  /\ UNCHANGED <<data, items, linkIdx>>
    /\ UNCHANGED <<totalItemsNumber, links, resolverVars, fileVars>>

\* The asset the two for loops of lines 120 and 123 stand on.
CurrentObj == items[imageIdx].data[objIdx]

\* A resolver that tests for the presence of the tag, not for its value.
HasMediaType(obj) == "media_type" \in DOMAIN obj

\* `dataObj["media_type"] == "image"` (line 124)
IsImage(obj) == obj.media_type = "image"

\* Line 123, the assets of the item are exhausted: on to the next item.
DataEnd ==
    /\ pc = "items"
    /\ imageIdx <= Len(items)
    /\ objIdx > Len(items[imageIdx].data)
    /\ imageIdx' = imageIdx + 1
    /\ objIdx' = 1
    /\ UNCHANGED <<pc, paginatorVars, nasaID, listing, listIdx, imageMetadata, imageSize, finalArr, listed,
                   origin, fileVars, sawNon200, extraQueries>>

\* Line 124 false: nothing else is in the loop body.
SkipDataObj ==
    /\ pc = "items"
    /\ imageIdx <= Len(items)
    /\ objIdx <= Len(items[imageIdx].data)
    /\ ~IsImage(CurrentObj)
    /\ objIdx' = objIdx + 1
    /\ UNCHANGED <<pc, paginatorVars, imageIdx, nasaID, listing, listIdx, imageMetadata, imageSize, finalArr,
                   listed, origin, fileVars, sawNon200, extraQueries>>

\* Lines 124-131: an image; its id is kept and the file listing of the item
\* is fetched and parsed.  The status code is not looked at.
ListingFetch ==
    /\ pc = "items"
    /\ imageIdx <= Len(items)
    /\ objIdx <= Len(items[imageIdx].data)
    /\ IsImage(CurrentObj)
    /\ nasaID' = CurrentObj.nasa_id
    /\ extraQueries' = TRUE
    /\ listed' = listed \cup {<<imageIdx, objIdx>>}
    /\ \E status \in StatusCodes, parses \in BOOLEAN, body \in ListingBodies :
          /\ sawNon200' = (sawNon200 \/ status # HttpOk)
          /\ IF parses
             THEN /\ listing' = body
                  /\ listIdx' = 1
                  /\ pc' = "scan"
             ELSE /\ pc' = "crashed"
                  /\ UNCHANGED <<listing, listIdx>>
    /\ UNCHANGED <<paginatorVars, imageIdx, objIdx, imageMetadata, imageSize, finalArr, origin,
                   fileVars>>

\* Line 131, the listing is exhausted: on to the next asset.
ScanEnd ==
    /\ pc = "scan"
    /\ listIdx > Len(listing)
    /\ listing' = <<>>
    /\ listIdx' = 0
    /\ objIdx' = objIdx + 1
    /\ pc' = "items"
    /\ UNCHANGED <<paginatorVars, imageIdx, nasaID, imageMetadata, imageSize, finalArr, listed,
                   origin, fileVars, sawNon200, extraQueries>>

\* Line 134 false.
ScanSkip ==
    /\ pc = "scan"
    /\ listIdx <= Len(listing)
    /\ ~IsMetadataUrl(listing[listIdx])
    /\ listIdx' = listIdx + 1
    /\ UNCHANGED <<pc, paginatorVars, imageIdx, objIdx, nasaID, listing, imageMetadata, imageSize,
                   finalArr, listed, origin, fileVars, sawNon200, extraQueries>>

\* Lines 134-137: the metadata document is fetched and parsed.  The status
\* code is not looked at.
MetadataFetch ==
    /\ pc = "scan"
    /\ listIdx <= Len(listing)
    /\ IsMetadataUrl(listing[listIdx])
    /\ extraQueries' = TRUE
    /\ \E status \in StatusCodes, parses \in BOOLEAN, doc \in PipelineDocuments :
          /\ sawNon200' = (sawNon200 \/ status # HttpOk)
          /\ IF parses
             THEN /\ imageMetadata' = doc
                  /\ pc' = "field"
             ELSE /\ pc' = "crashed"
                  /\ UNCHANGED imageMetadata
    /\ UNCHANGED <<paginatorVars, imageIdx, objIdx, nasaID, listing, listIdx, imageSize, finalArr,
                   listed, origin, fileVars>>

\* A resolver that tests for a non-empty document, not for the field.
IsNonEmptyDocument(doc) == doc.fields # {}

\* `"File:FileSize" in imageMetadata` (line 139)
HasFileSize(doc) == "File:FileSize" \in doc.fields

\* Lines 139-140: the size is read if the document has one; if not, nothing
\* else is in the loop body.
FieldTest ==
    /\ pc = "field"
    /\ IF HasFileSize(imageMetadata)
       THEN /\ imageSize' = imageMetadata.FileSize
            /\ pc' = "size"
            /\ UNCHANGED listIdx
       ELSE /\ listIdx' = listIdx + 1
            /\ pc' = "scan"
            /\ UNCHANGED imageSize
    /\ UNCHANGED <<paginatorVars, imageIdx, objIdx, nasaID, listing, imageMetadata, finalArr,
                   listed, origin, fileVars, sawNon200, extraQueries>>

\* A resolver that puts each new entry in front.
Prepended(arr, entry) == <<entry>> \o arr

\* finalArr.append(...) of lines 145 and 151
Appended(arr, entry) == Append(arr, entry)

\* Lines 143-152 on the size string just read.
SizeFilter ==
    /\ pc = "size"
    /\ LET out == SizeOutcome(imageSize)
       IN  IF out.kind = "raise"
           THEN /\ pc' = "crashed"
                /\ UNCHANGED <<listIdx, imageSize, finalArr, origin>>
           ELSE /\ pc' = "scan"
                /\ listIdx' = listIdx + 1
                /\ imageSize' = <<>>
                /\ IF out.kind = "keep"
                   THEN /\ finalArr' = Appended(finalArr, [Nasa_id |-> nasaID, kb |-> out.kb])
                        /\ origin' = Append(origin, <<imageIdx, objIdx>>)
                   ELSE UNCHANGED <<finalArr, origin>>
    /\ UNCHANGED <<paginatorVars, imageIdx, objIdx, nasaID, listing, imageMetadata, listed,
                   fileVars, sawNon200, extraQueries>>

\* What generate_csv_file_from_final_array leaves on disk (lines 164-169).
WrittenFile(arr) == [exists |-> TRUE, header |-> Fieldnames, rows |-> CsvRows(arr)]

\* Line 120 exhausted, line 154, then main line 196: the report is written.
GenerateCsvFile ==
    /\ pc = "items"
    /\ imageIdx > Len(items)
    /\ csvFile' = WrittenFile(finalArr)
    /\ pc' = "done"
    /\ UNCHANGED <<paginatorVars, resolverVars, csvBefore, sawNon200, extraQueries>>

Next ==
    \/ Search
    \/ LoopAgain
    \/ ReturnItems
    \/ ForEnd
    \/ ForSkip
    \/ PaginationFetch
    \/ DataEnd
    \/ SkipDataObj
    \/ ListingFetch
    \/ ScanEnd
    \/ ScanSkip
    \/ MetadataFetch
    \/ FieldTest
    \/ SizeFilter
    \/ GenerateCsvFile

Spec == Init /\ [][Next]_vars

\* The process is never suspended for ever: a step that can be taken is taken.
FairSpec == Spec /\ WF_vars(Next)

(***************************************************************************)
(* The size filter alone, on every "<number> <unit>" string of the bound:  *)
(* the process stands at line 143 for the one image of a one-item result.  *)
(***************************************************************************)
InitSizeFilter ==
    /\ pc = "size"
    /\ data = NoData
    /\ totalItemsNumber = 1
    /\ items = <<[href |-> "a", data |-> <<Asset("image", "A")>>]>>
    /\ links = <<>>
    /\ linkIdx = 0
    /\ imageIdx = 1
    /\ objIdx = 1
    /\ nasaID = "A"
    /\ listing = <<UrlMeta>>
    /\ listIdx = 1
    /\ imageSize \in RawSizes
    /\ imageMetadata = Document(imageSize)
    /\ finalArr = <<>>
    /\ csvBefore = NoFile
    /\ csvFile = csvBefore
    /\ sawNon200 = FALSE
    /\ extraQueries = TRUE
    /\ listed = {<<1, 1>>}
    /\ origin = <<>>

SizeFilterSpec == InitSizeFilter /\ [][SizeFilter]_vars

(***************************************************************************)
(* Properties.                                                             *)
(***************************************************************************)
\* The number a stored "kb" value stands for.
KbValue(kb) == IF kb.py = "int" THEN kb.n ELSE PyInt(kb.s)

\* The positions <<item, asset>> of the accumulated item list.
Positions == UNION { { <<i, j>> : j \in 1..Len(items[i].data) } : i \in 1..Len(items) }

ImagePositions == { p \in Positions : items[p[1]].data[p[2]].media_type = "image" }

ImageIds == { items[p[1]].data[p[2]].nasa_id : p \in ImagePositions }

\* The paginator has returned (the resolver's loop position is set on return).
Returned == imageIdx >= 1

\* C1: whenever generate_items_array_from_data has returned, the item list it
\* returned has exactly total_hits items.
C1_ReturnsExactlyTotal == Returned => Len(items) = totalItemsNumber

\* The paginator has just returned two items after fetching a further page.
C1_Witness ==
    /\ pc = "items"
    /\ imageIdx = 1 /\ objIdx = 1 /\ listed = {}
    /\ extraQueries
    /\ Len(items) = 2 /\ totalItemsNumber = 2

HasNextLink(page) == \E i \in 1..Len(page["links"]) : page["links"][i].rel = "next"

\* C2: the pagination loop is eventually left, unless the page in hand lacks
\* a "next" link while the count is short of the total (the claim's proviso
\* fails) or a fetched page brought no item.
C2_PaginationTerminates ==
    <>( \/ pc \notin {"main", "while", "for"}
        \/ (pc = "while" /\ Len(items) < totalItemsNumber /\ ~HasNextLink(data))
        \/ (pc \in {"while", "for"} /\ data["items"] = <<>>) )

\* C3: a run that has received a response with a status other than 200 never
\* writes the report.
C3_Non200NeverWrites == sawNon200 => pc # "done"

\* C4: after a search that reported zero hits the process has exited, has
\* made no further request and has left the output file as it was.
C4_ZeroHitsLeavesFileAlone ==
    data["total_hits"] = 0 => (pc = "exited" /\ csvFile = csvBefore /\ ~extraQueries)

\* A zero-hit search has ended the process with an older report on disk.
C4_Witness ==
    /\ data["total_hits"] = 0
    /\ pc = "exited"
    /\ csvBefore = StaleFile
    /\ csvFile = StaleFile

\* C5: every entry of finalArr, and every row of the written report, has a
\* size above 1000 and the nasa_id of an image asset of the item list.
C5_EntriesAreLargeImages ==
    /\ \A k \in 1..Len(finalArr) :
          /\ KbValue(finalArr[k].kb) > 1000
          /\ finalArr[k].Nasa_id \in ImageIds
    /\ pc = "done" =>
          \A k \in 1..Len(csvFile.rows) :
             /\ IntParses(csvFile.rows[k].kb)
             /\ PyInt(csvFile.rows[k].kb) > 1000
             /\ csvFile.rows[k].Nasa_id \in ImageIds

\* A report with a row from the kB branch and a row from the MB branch.
C5_Witness ==
    /\ pc = "done"
    /\ \E k \in 1..Len(finalArr) : finalArr[k].kb.py = "str"
    /\ \E k \in 1..Len(finalArr) : finalArr[k].kb.py = "int"
    /\ Len(csvFile.rows) = Len(finalArr)

\* p is not after q in the order of the two resolver loops.
NotAfter(p, q) == p[1] < q[1] \/ (p[1] = q[1] /\ p[2] <= q[2])

C6_OrderInvariant ==
    /\ Len(origin) = Len(finalArr)
    /\ \A k \in 1..Len(finalArr) :
          /\ origin[k] \in ImagePositions
          /\ finalArr[k].Nasa_id = items[origin[k][1]].data[origin[k][2]].nasa_id
    /\ \A k \in 1..(Len(finalArr) - 1) : NotAfter(origin[k], origin[k + 1])
    /\ pc = "done" =>
          /\ csvFile.exists
          /\ csvFile.header = <<"Nasa_id", "kb">>
          /\ Len(csvFile.rows) = Len(finalArr)
          /\ \A k \in 1..Len(finalArr) :
                /\ csvFile.rows[k].Nasa_id = finalArr[k].Nasa_id
                /\ PyInt(csvFile.rows[k].kb) = KbValue(finalArr[k].kb)

C6_OnlyAppended ==
    \/ finalArr' = finalArr
    \/ /\ Len(finalArr') = Len(finalArr) + 1
       /\ SubSeq(finalArr', 1, Len(finalArr)) = finalArr

\* C6: the entries stand in the order in which the resolver met their assets
\* (items in input order, assets in order within an item), a step changes
\* finalArr only by appending one entry, and the report holds the header
\* Nasa_id,kb and then one row per entry in that order.
C6_OrderPreserved == []C6_OrderInvariant /\ [][C6_OnlyAppended]_vars

\* A report of two rows with different ids.
C6_Witness ==
    /\ pc = "done"
    /\ Len(csvFile.rows) >= 2
    /\ csvFile.rows[1].Nasa_id # csvFile.rows[2].Nasa_id

\* s is a decimal numeral: digits, with at most one point, which stands
\* between two digits.
IsNumber(s) ==
    /\ Len(s) >= 1
    /\ \A i \in 1..Len(s) : IsDigit(s[i]) \/ s[i] = "."
    /\ Cardinality({i \in 1..Len(s) : s[i] = "."}) <= 1
    /\ IsDigit(s[1]) /\ IsDigit(s[Len(s)])

UnitOf(raw) == SubSeq(raw, Len(SplitFirst(raw)) + 2, Len(raw))

\* raw is "<number> kB" or "<number> MB".
IsSizeString(raw) ==
    /\ IsNumber(SplitFirst(raw))
    /\ UnitOf(raw) \in { <<"k", "B">>, <<"M", "B">> }

\* integer(number) for kB, integer(floating-point(number) * 1000) for MB.
ClaimedKb(raw) ==
    LET number == SplitFirst(raw)
    IN  IF UnitOf(raw) = <<"k", "B">>
        THEN DecimalValue(SubSeq(number, 1, PointAt(number) - 1))
        ELSE PyIntFloatTimes1000(number)

YieldsClaimed(raw) ==
    IF ClaimedKb(raw) > 1000
    THEN /\ pc' = "scan"
         /\ Len(finalArr') = Len(finalArr) + 1
         /\ SubSeq(finalArr', 1, Len(finalArr)) = finalArr
         /\ finalArr'[Len(finalArr')].Nasa_id = nasaID
         /\ KbValue(finalArr'[Len(finalArr')].kb) = ClaimedKb(raw)
    ELSE /\ pc' = "scan"
         /\ finalArr' = finalArr

\* C7: on every "<number> kB" or "<number> MB" string the size filter yields
\* integer(number), respectively integer(number * 1000), when that value is
\* above 1000, and yields nothing otherwise.
C7_SizeFilterAsClaimed ==
    [][(pc = "size" /\ IsSizeString(imageSize)) => YieldsClaimed(imageSize)]_vars

\* The same restricted to the strings whose number int() accepts when the
\* unit is kB: this much the size filter does.
C7_OnWholeKilobytes ==
    [][(/\ pc = "size"
        /\ IsSizeString(imageSize)
        /\ (UnitOf(imageSize) = <<"k", "B">> => IntParses(SplitFirst(imageSize))))
       => YieldsClaimed(imageSize)]_vars

\* C8: a "next" page is fetched only from a state in which the accumulated
\* count is below the declared total.
C8_FetchOnlyWhileShort == [][PaginationFetch => Len(items) < totalItemsNumber]_vars

C9_Invariant ==
    /\ listed \subseteq ImagePositions
    /\ \A k \in 1..Len(origin) : origin[k] \in listed
    /\ \A p \in ImagePositions : (p # <<imageIdx, objIdx>> /\ NotAfter(p, <<imageIdx, objIdx>>)) => p \in listed
    /\ pc = "done" => listed = ImagePositions

C9_NonImageStep ==
    (/\ pc = "items"
     /\ imageIdx <= Len(items)
     /\ objIdx <= Len(items[imageIdx].data)
     /\ items[imageIdx].data[objIdx].media_type # "image")
    => /\ pc' = "items"
       /\ imageIdx' = imageIdx
       /\ objIdx' = objIdx + 1
       /\ finalArr' = finalArr
       /\ listed' = listed
       /\ extraQueries' = extraQueries

\* C9: a listing is requested, and an entry made, for image assets only; the
\* step on a non-image asset fetches nothing, adds nothing and moves to the
\* next asset of the same item; every image asset the loops have passed has
\* had its listing requested, all of them once the report is written.
C9_OnlyImagesAllImages == []C9_Invariant /\ [][C9_NonImageStep]_vars

\* The report is written and the item with two images around a video had
\* both images processed.
C9_Witness ==
    /\ pc = "done"
    /\ \E i \in 1..Len(items) :
          /\ Len(items[i].data) = 3
          /\ items[i].data[2].media_type = "video"
          /\ {<<i, 1>>, <<i, 3>>} \subseteq listed
          /\ <<i, 2>> \notin listed

IsMetadataEntry(url) == \E i \in 1..Len(url) : url[i] = "metadata.json"

NoMetadataEntry == \A i \in 1..Len(listing) : ~IsMetadataEntry(listing[i])

C10_Invariant ==
    ((pc \in {"scan", "field", "size"} \/ (pc = "crashed" /\ listIdx >= 1)) /\ NoMetadataEntry)
    => /\ pc = "scan"
       /\ \A k \in 1..Len(origin) : origin[k] # <<imageIdx, objIdx>>

C10_Step ==
    /\ (pc = "scan" /\ listIdx <= Len(listing) /\ ~IsMetadataEntry(listing[listIdx]))
       => (pc' = "scan" /\ listIdx' = listIdx + 1 /\ finalArr' = finalArr)
    /\ (pc = "field" /\ "File:FileSize" \notin imageMetadata.fields)
       => (pc' = "scan" /\ listIdx' = listIdx + 1 /\ finalArr' = finalArr)
    /\ (pc = "scan" /\ listIdx > Len(listing))
       => (pc' = "items" /\ imageIdx' = imageIdx /\ objIdx' = objIdx + 1 /\ finalArr' = finalArr)

\* C10: while the listing of an image asset has no metadata.json entry the
\* process is scanning it, not failed, and the asset has no entry; a
\* document without a File:FileSize field leaves finalArr as it was and the
\* scan goes on; at the end of a listing the resolver moves to the next asset.
C10_MissingMetadataSkipped == []C10_Invariant /\ [][C10_Step]_vars

\* The listing in hand has no metadata.json entry and its scan is over, the
\* last document fetched (for an earlier asset) had no size, and the entry
\* made before both is still the only one.
C10_Witness ==
    /\ pc = "scan"
    /\ listing = <<UrlOrig>>
    /\ listIdx > Len(listing)
    /\ imageMetadata = DocumentWithoutSize
    /\ Len(finalArr) = 1
    /\ origin[1] # <<imageIdx, objIdx>>

====
